---- MODULE Spec2Model ----
(***************************************************************************)
(* The project router (src/server/api/routers/project.ts): the procedures  *)
(* over the Project, Workflow and Label tables, as a state machine over    *)
(* the store.  Every procedure is one action, except deleteProject, whose  *)
(* handler awaits the store between its lookup and its delete: it is three *)
(* steps (lookup, authorize, delete) of a call in flight.                  *)
(***************************************************************************)
EXTENDS Integers, Sequences, FiniteSets, TLC

VARIABLES
    projects,       \* Project table: id -> row (workflow rows nested)
    nextProjectId,  \* the store's id generator for projects (ids are never reused)
    labels,         \* Label table: id -> row
    nextLabelId,    \* the store's id generator for labels
    calls,          \* deleteProject calls in flight: slot -> position and locals
    resp            \* the response last given to a caller

vars == <<projects, nextProjectId, labels, nextLabelId, calls, resp>>

----------------------------------------------------------------------------
(* Bounds *)

MaxProjects == 2
MaxLabels == 2
MaxCalls == 2

----------------------------------------------------------------------------
(* Identifiers and input domains *)

NULL == <<>>

UserIds == {<<"u", 1>>, <<"u", 2>>}
\* The caller of the procedures that never read ctx.session.user.
Admin == <<"u", 1>>
ProjectId(n) == <<"p", n>>
LabelId(n) == <<"l", n>>
AllProjectIds == {ProjectId(n) : n \in 1..MaxProjects}
AllLabelIds == {LabelId(n) : n \in 1..MaxLabels}
Calls == 1..MaxCalls

\* z.string() ids: a procedure's id arguments are any strings, so a user's id
\* can be given where a project's is expected and the other way round.
AnyIds == UserIds \cup AllProjectIds

\* The Workspace and User tables, which no procedure of this router writes.
workspaces == {[id |-> <<"w", 1>>, shortName |-> "acme"]}
WorkspaceIds == {<<"w", 1>>, <<"w", 2>>}
users == [u \in UserIds |-> [workspaceId |-> <<"w", 1>>]]

ProjectTypes == {"KANBAN", "SCRUM"}
Names == {"Sprint Board", "Roadmap"}
ShortNames == {"acme", "ghost"}
Titles == {"bug", "bugs"}
Colors == {"#fffff", "#ffffff", "#fffffff"}
Descriptions == {NULL, <<"d">>}

----------------------------------------------------------------------------
(* projectTypesList and the helpers of createProject *)

\* Variant: the SCRUM template without its Review column.
DefaultWorkflowsNoReview(projectType) ==
    IF projectType = "KANBAN"
    THEN <<"Backlog", "To Do", "In Progress", "Done">>
    ELSE <<"Backlog", "To Do", "In Progress", "Done">>

DefaultWorkflows(projectType) ==
    IF projectType = "KANBAN"
    THEN <<"Backlog", "To Do", "In Progress", "Done">>
    ELSE <<"Backlog", "To Do", "In Progress", "Review", "Done">>

\* defaultWorkflows.map((workflow, index) => ({title: workflow, index: index}))
WorkflowRows(defaultWorkflows) ==
    [i \in 1..Len(defaultWorkflows) |->
        [title |-> defaultWorkflows[i], index |-> i - 1]]

\* createMany's skipDuplicates: a row whose title an earlier row of the batch
\* already has is skipped.
RECURSIVE SkipDuplicates(_)
SkipDuplicates(rows) ==
    IF rows = <<>> THEN <<>>
    ELSE LET init == SkipDuplicates(SubSeq(rows, 1, Len(rows) - 1))
             last == rows[Len(rows)]
         IN  IF \E i \in 1..Len(init) : init[i].title = last.title
             THEN init
             ELSE Append(init, last)

\* Variant: a findFirst without its where clause.
FindWorkspaceAny(shortName) ==
    (CHOOSE w \in workspaces : TRUE).id

\* prisma.workspace.findFirst({where: {shortName}})?.id
FindWorkspace(shortName) ==
    IF \E w \in workspaces : w.shortName = shortName
    THEN (CHOOSE w \in workspaces : w.shortName = shortName).id
    ELSE NULL

\* Project.workspaceId is an optional column: a create whose data leaves it
\* undefined stores the row with no workspace.
WorkspaceIdOptional == TRUE

----------------------------------------------------------------------------
(* Responses *)

Response(op, kind, user, input, result) ==
    [op |-> op, kind |-> kind, user |-> user, input |-> input, result |-> result]

NoResponse == Response("none", "OK", NULL, NULL, NULL)

IdleCall == [pc |-> "idle", user |-> NULL, id |-> NULL,
             projectToDelete |-> [found |-> FALSE, projectLeadId |-> NULL]]

Init ==
    /\ projects = <<>>
    /\ nextProjectId = 1
    /\ labels = <<>>
    /\ nextLabelId = 1
    /\ calls = [c \in Calls |-> IdleCall]
    /\ resp = NoResponse

Remove(table, id) == [k \in DOMAIN table \ {id} |-> table[k]]
Put(table, id, row) == [k \in DOMAIN table \cup {id} |-> IF k = id THEN row ELSE table[k]]

----------------------------------------------------------------------------
(* createProject *)

CreateProject(user, name, projectType, workspaceShortName) ==
    /\ nextProjectId <= MaxProjects
    /\ LET defaultWorkflows == DefaultWorkflows(projectType)
           workspaceId == FindWorkspace(workspaceShortName)
           input == [name |-> name, projectType |-> projectType,
                     workspaceShortName |-> workspaceShortName]
           id == ProjectId(nextProjectId)
           row == [name |-> name,
                   projectType |-> projectType,
                   projectLeadId |-> user,
                   defaultAssigneeId |-> NULL,
                   members |-> {user},
                   workflows |-> SkipDuplicates(WorkflowRows(defaultWorkflows)),
                   workspaceId |-> workspaceId]
       IN  IF workspaceId = NULL /\ ~WorkspaceIdOptional
           THEN /\ UNCHANGED <<projects, nextProjectId>>
                /\ resp' = Response("createProject", "STORE_CONSTRAINT", user, input, NULL)
           ELSE /\ projects' = Put(projects, id, row)
                /\ nextProjectId' = nextProjectId + 1
                /\ resp' = Response("createProject", "OK", user, input, id)
    /\ UNCHANGED <<labels, nextLabelId, calls>>

----------------------------------------------------------------------------
(* updateProject *)

\* Variant: an update whose data also resets projectType.
UpdateDataResetType(row, input) ==
    [row EXCEPT !.name = input.name,
                !.defaultAssigneeId = input.defaultAssigneeId,
                !.projectLeadId = input.projectLeadId,
                !.projectType = "KANBAN"]

\* data: {name, defaultAssigneeId, projectLeadId}
UpdateData(row, input) ==
    [row EXCEPT !.name = input.name,
                !.defaultAssigneeId = input.defaultAssigneeId,
                !.projectLeadId = input.projectLeadId]

\* No ownership check: any authenticated user may call it.  The store's update
\* of a row that does not exist rejects, and the rejection reaches the caller.
UpdateProject(user, id, name, defaultAssigneeId, projectLeadId) ==
    LET input == [id |-> id, name |-> name,
                  defaultAssigneeId |-> defaultAssigneeId,
                  projectLeadId |-> projectLeadId]
    IN  /\ IF id \in DOMAIN projects
           THEN /\ projects' = [projects EXCEPT ![id] = UpdateData(@, input)]
                /\ resp' = Response("updateProject", "OK", user, input, id)
           ELSE /\ projects' = projects
                /\ resp' = Response("updateProject", "STORE_NOT_FOUND", user, input, NULL)
        /\ UNCHANGED <<nextProjectId, labels, nextLabelId, calls>>

----------------------------------------------------------------------------
(* deleteProject: lookup, authorize, delete *)

\* prisma.project.findFirst({where: {id}}): the row found, or null
FindProject(id) ==
    IF id \in DOMAIN projects
    THEN [found |-> TRUE, projectLeadId |-> projects[id].projectLeadId]
    ELSE [found |-> FALSE, projectLeadId |-> NULL]

\* ctx.session.user.id === projectToDelete?.projectLeadId
IsLead(userId, projectToDelete) ==
    userId = projectToDelete.projectLeadId

\* Variant: a catch clause that rethrows what it caught.
CatchKindRethrow(thrown) == thrown

\* catch (err) { throw new TRPCError({code: "BAD_REQUEST"}) }: whatever was
\* thrown inside the try block, the TRPCError of the else branch included.
CatchKind(thrown) == "BAD_REQUEST"

\* return ctx.prisma.project.delete(...): the promise is returned, not awaited,
\* so its rejection settles the handler's own promise after the try block has
\* been left and the catch clause never sees it.
ReturnedRejectionKind(rejection) == rejection

DeleteLookup(c, user, id) ==
    /\ calls[c].pc = "idle"
    /\ calls' = [calls EXCEPT ![c] = [pc |-> "authorize", user |-> user, id |-> id,
                                      projectToDelete |-> FindProject(id)]]
    /\ UNCHANGED <<projects, nextProjectId, labels, nextLabelId, resp>>

DeleteAuthorize(c) ==
    /\ calls[c].pc = "authorize"
    /\ IF IsLead(calls[c].user, calls[c].projectToDelete)
       THEN /\ calls' = [calls EXCEPT ![c].pc = "delete"]
            /\ resp' = resp
       ELSE /\ calls' = [calls EXCEPT ![c] = IdleCall]
            /\ resp' = Response("deleteProject", CatchKind("UNAUTHORIZED"),
                                calls[c].user, [id |-> calls[c].id], NULL)
    /\ UNCHANGED <<projects, nextProjectId, labels, nextLabelId>>

\* prisma.project.delete({where: {id}}): the row goes, with the workflow rows
\* nested in it; a row that is no longer there makes the store reject.
DeleteExecute(c) ==
    /\ calls[c].pc = "delete"
    /\ LET id == calls[c].id
       IN  IF id \in DOMAIN projects
           THEN /\ projects' = Remove(projects, id)
                /\ resp' = Response("deleteProject", "OK", calls[c].user, [id |-> id], id)
           ELSE /\ projects' = projects
                /\ resp' = Response("deleteProject", ReturnedRejectionKind("STORE_NOT_FOUND"),
                                    calls[c].user, [id |-> id], NULL)
    /\ calls' = [calls EXCEPT ![c] = IdleCall]
    /\ UNCHANGED <<nextProjectId, labels, nextLabelId>>

----------------------------------------------------------------------------
(* assignUserToProject *)

\* prisma.user.update({where: {id: input.projectId, workspaceId: input.workspaceId},
\*                     data: {projects: {connect: {id: input.userId}}}}):
\* the User row is the one whose id is input.projectId, and the Project row it
\* is connected to is the one whose id is input.userId.
AssignUserToProject(user, workspaceId, projectId, userId) ==
    LET input == [workspaceId |-> workspaceId, projectId |-> projectId, userId |-> userId]
        userRowId == projectId
        projectRowId == userId
    IN  /\ IF /\ userRowId \in DOMAIN users
              /\ users[userRowId].workspaceId = workspaceId
              /\ projectRowId \in DOMAIN projects
           THEN /\ projects' = [projects EXCEPT ![projectRowId].members = @ \cup {userRowId}]
                /\ resp' = Response("assignUserToProject", "OK", user, input, userRowId)
           ELSE /\ projects' = projects
                /\ resp' = Response("assignUserToProject", "STORE_NOT_FOUND", user, input, NULL)
        /\ UNCHANGED <<nextProjectId, labels, nextLabelId, calls>>

----------------------------------------------------------------------------
(* getUserProjects *)

\* Variant: a where clause without its projectLeadId branch.
UserProjectsWhereMember(row, userId) ==
    userId \in row.members

\* where: {OR: [{members: {some: {id: userId}}}, {projectLeadId: userId}]}
UserProjectsWhere(row, userId) ==
    \/ \E m \in row.members : m = userId
    \/ row.projectLeadId = userId

GetUserProjects(user) ==
    /\ resp' = Response("getUserProjects", "OK", user, NULL,
                        {id \in DOMAIN projects : UserProjectsWhere(projects[id], user)})
    /\ UNCHANGED <<projects, nextProjectId, labels, nextLabelId, calls>>

----------------------------------------------------------------------------
(* Labels *)

\* title: z.string().min(4), color: z.string().min(7).max(7)
CreateLabelInputValid(title, color) ==
    /\ Len(title) >= 4
    /\ Len(color) >= 7
    /\ Len(color) <= 7

\* title: z.string(), color: z.string().min(7).max(7)
UpdateLabelInputValid(title, color) ==
    /\ Len(color) >= 7
    /\ Len(color) <= 7

CreateProjectLabels(user, projectId, title, color, description) ==
    LET input == [projectId |-> projectId, title |-> title, color |-> color,
                  description |-> description]
        id == LabelId(nextLabelId)
    IN  /\ nextLabelId <= MaxLabels
        /\ IF CreateLabelInputValid(title, color)
           THEN /\ labels' = Put(labels, id, [title |-> title, color |-> color,
                                              projectId |-> projectId,
                                              description |-> description])
                /\ nextLabelId' = nextLabelId + 1
                /\ resp' = Response("createProjectLabels", "OK", user, input, id)
           ELSE /\ UNCHANGED <<labels, nextLabelId>>
                /\ resp' = Response("createProjectLabels", "VALIDATION", user, input, NULL)
        /\ UNCHANGED <<projects, nextProjectId, calls>>

DeleteProjectLabel(user, id) ==
    /\ IF id \in DOMAIN labels
       THEN /\ labels' = Remove(labels, id)
            /\ resp' = Response("deleteProjectLabel", "OK", user, [id |-> id], id)
       ELSE /\ labels' = labels
            /\ resp' = Response("deleteProjectLabel", "STORE_NOT_FOUND", user, [id |-> id], NULL)
    /\ UNCHANGED <<projects, nextProjectId, nextLabelId, calls>>

UpdateProjectLabel(user, id, title, description, color) ==
    LET input == [id |-> id, title |-> title, description |-> description, color |-> color]
    IN  /\ IF ~UpdateLabelInputValid(title, color)
           THEN /\ labels' = labels
                /\ resp' = Response("updateProjectLabel", "VALIDATION", user, input, NULL)
           ELSE IF id \in DOMAIN labels
           THEN /\ labels' = [labels EXCEPT ![id].title = title,
                                            ![id].color = color,
                                            ![id].description = description]
                /\ resp' = Response("updateProjectLabel", "OK", user, input, id)
           ELSE /\ labels' = labels
                /\ resp' = Response("updateProjectLabel", "STORE_NOT_FOUND", user, input, NULL)
        /\ UNCHANGED <<projects, nextProjectId, nextLabelId, calls>>

----------------------------------------------------------------------------
(* Specifications *)

\* No deleteProject call is between its steps.
Quiet == \A c \in Calls : calls[c].pc = "idle"

\* The store answers one request at a time: a request starts only when no
\* deleteProject call is between its steps.
Next ==
    \/ /\ Quiet
       /\ \E user \in UserIds : CreateProject(user, "Sprint Board", "KANBAN", "acme")
    \/ /\ Quiet
       /\ \E id \in AllProjectIds, projectLeadId \in UserIds :
             UpdateProject(Admin, id, "Sprint Board", NULL, projectLeadId)
    \/ /\ Quiet
       /\ \E c \in Calls, user \in UserIds, id \in AllProjectIds : DeleteLookup(c, user, id)
    \/ \E c \in Calls : DeleteAuthorize(c)
    \/ \E c \in Calls : DeleteExecute(c)

Spec == Init /\ [][Next]_vars

\* Requests interleave: deleteProject calls are suspended at their awaits while
\* other calls, and updateProject, run against the store.
NextDelete ==
    \/ \E user \in UserIds : CreateProject(user, "Sprint Board", "KANBAN", "acme")
    \/ \E user \in UserIds, id \in AllProjectIds, projectLeadId \in UserIds :
          UpdateProject(user, id, "Sprint Board", NULL, projectLeadId)
    \/ \E c \in Calls, user \in UserIds, id \in AllProjectIds : DeleteLookup(c, user, id)
    \/ \E c \in Calls : DeleteAuthorize(c)
    \/ \E c \in Calls : DeleteExecute(c)

SpecDelete == Init /\ [][NextDelete]_vars

\* Creation, over every input of createProject.
NextCreate ==
    \E user \in UserIds, name \in Names, projectType \in ProjectTypes,
       workspaceShortName \in ShortNames :
       CreateProject(user, name, projectType, workspaceShortName)

SpecCreate == Init /\ [][NextCreate]_vars

\* Updates, over every input of updateProject, of projects of both types.
NextUpdate ==
    \/ \E projectType \in ProjectTypes :
          CreateProject(Admin, "Sprint Board", projectType, "acme")
    \/ \E id \in AllProjectIds, name \in Names,
          defaultAssigneeId \in {NULL, Admin}, projectLeadId \in UserIds :
          UpdateProject(Admin, id, name, defaultAssigneeId, projectLeadId)
    \/ \E projectId \in UserIds \ {Admin}, userId \in AllProjectIds :
          AssignUserToProject(Admin, <<"w", 1>>, projectId, userId)

SpecUpdate == Init /\ [][NextUpdate]_vars

\* Membership: projects of one shape, whose leads and members change.
NextMembers ==
    \/ \E user \in UserIds : CreateProject(user, "Sprint Board", "KANBAN", "acme")
    \/ \E id \in AllProjectIds, projectLeadId \in UserIds :
          UpdateProject(Admin, id, "Sprint Board", NULL, projectLeadId)
    \/ \E workspaceId \in WorkspaceIds, projectId \in AnyIds, userId \in AnyIds :
          AssignUserToProject(Admin, workspaceId, projectId, userId)
    \/ \E user \in UserIds : GetUserProjects(user)

SpecMembers == Init /\ [][NextMembers]_vars

NextLabels ==
    \/ \E user \in UserIds, projectId \in AllProjectIds, title \in Titles,
          color \in Colors, description \in Descriptions :
          CreateProjectLabels(user, projectId, title, color, description)
    \/ \E user \in UserIds, id \in AllLabelIds : DeleteProjectLabel(user, id)
    \/ \E user \in UserIds, id \in AllLabelIds, title \in Titles,
          description \in Descriptions, color \in Colors :
          UpdateProjectLabel(user, id, title, description, color)

SpecLabels == Init /\ [][NextLabels]_vars

----------------------------------------------------------------------------
(* Claims *)

\* A step in which the deleteProject call of slot c answers its caller.
Answers(c) == calls[c].pc # "idle" /\ calls'[c].pc = "idle"

\* C1: deleteProject(id) on an existing project removes the project if and only
\* if the caller is the project's lead; for every other caller it answers
\* Unauthorized and the project stays in the store.
C1_DeleteIffLeadElseUnauthorized ==
    [][\A c \in Calls :
          (Answers(c) /\ calls[c].id \in DOMAIN projects) =>
              IF calls[c].user = projects[calls[c].id].projectLeadId
              THEN /\ resp'.kind = "OK"
                   /\ calls[c].id \notin DOMAIN projects'
              ELSE /\ resp'.kind = "UNAUTHORIZED"
                   /\ projects' = projects]_vars

\* C2: deleteProject(id) with an id that matches no project answers BadRequest,
\* whoever calls, and leaves the set of projects as it was: the call never
\* reaches the store's delete.
C2_DeleteMissingIsBadRequest ==
    [][\A c \in Calls :
          /\ (calls[c].pc = "idle" /\ calls'[c].pc # "idle"
                 /\ calls'[c].id \notin DOMAIN projects) =>
                (calls'[c].pc = "authorize" /\ projects' = projects)
          /\ (calls[c].pc = "authorize" /\ calls'[c] # calls[c]
                 /\ calls[c].id \notin DOMAIN projects) =>
                /\ calls'[c].pc = "idle"
                /\ resp' = Response("deleteProject", "BAD_REQUEST", calls[c].user,
                                    [id |-> calls[c].id], NULL)
                /\ projects' = projects]_vars

\* A project's lead has called deleteProject with an id no project ever had,
\* beside a stored project, and was answered BadRequest.
C2_Witness ==
    /\ resp.op = "deleteProject"
    /\ resp.kind = "BAD_REQUEST"
    /\ nextProjectId = 2
    /\ ProjectId(1) \in DOMAIN projects
    /\ resp.input.id = ProjectId(2)
    /\ resp.user = projects[ProjectId(1)].projectLeadId

KanbanTemplate ==
    <<[title |-> "Backlog", index |-> 0], [title |-> "To Do", index |-> 1],
      [title |-> "In Progress", index |-> 2], [title |-> "Done", index |-> 3]>>

ScrumTemplate ==
    <<[title |-> "Backlog", index |-> 0], [title |-> "To Do", index |-> 1],
      [title |-> "In Progress", index |-> 2], [title |-> "Review", index |-> 3],
      [title |-> "Done", index |-> 4]>>

\* C3: a created project's workflows are exactly its type's template, no entry
\* skipped, each workflow's index its 0-based position, so that the indices
\* are unique and dense within the project.
C3_WorkflowsAreTemplate ==
    \A id \in DOMAIN projects :
        LET p == projects[id]
            n == Len(p.workflows)
        IN  /\ p.projectType = "KANBAN" => p.workflows = KanbanTemplate
            /\ p.projectType = "SCRUM" => p.workflows = ScrumTemplate
            /\ \A i \in 1..n : p.workflows[i].index = i - 1
            /\ {p.workflows[i].index : i \in 1..n} = 0..(n - 1)

\* createProject has just created a SCRUM project beside a KANBAN one.
C3_Witness ==
    /\ resp.op = "createProject"
    /\ resp.kind = "OK"
    /\ resp.input.projectType = "SCRUM"
    /\ resp.result \in DOMAIN projects
    /\ Len(projects[resp.result].workflows) = Len(ScrumTemplate)
    /\ \E id \in DOMAIN projects : projects[id].projectType = "KANBAN"

\* C4: after assignUserToProject(workspaceId, projectId, userId) succeeds, the
\* user userId is a member of the project projectId, and no other project's
\* member set has changed.
C4_AssignConnectsUserToProject ==
    [][(resp'.op = "assignUserToProject" /\ resp'.kind = "OK") =>
          /\ resp'.input.projectId \in DOMAIN projects'
          /\ resp'.input.userId \in projects'[resp'.input.projectId].members
          /\ \A id \in DOMAIN projects \ {resp'.input.projectId} :
                /\ id \in DOMAIN projects'
                /\ projects'[id].members = projects[id].members]_vars

\* C5: every stored label has a color of exactly 7 characters and a title of
\* at least 4 characters.
C5_LabelShape ==
    \A id \in DOMAIN labels :
        /\ Len(labels[id].color) = 7
        /\ Len(labels[id].title) >= 4

\* C6: getUserProjects answers exactly the projects the caller is a member of
\* or leads.
C6_UserProjectsExact ==
    resp.op = "getUserProjects" =>
        /\ \A id \in DOMAIN projects :
              (resp.user \in projects[id].members \/ projects[id].projectLeadId = resp.user)
                  => id \in resp.result
        /\ \A id \in resp.result :
              /\ id \in DOMAIN projects
              /\ resp.user \in projects[id].members \/ projects[id].projectLeadId = resp.user

\* The answer holds a project the caller leads without being a member of it,
\* and leaves out a project the caller neither leads nor is a member of.
C6_Witness ==
    /\ resp.op = "getUserProjects"
    /\ \E id \in resp.result :
          /\ resp.user \notin projects[id].members
          /\ projects[id].projectLeadId = resp.user
    /\ \E id \in DOMAIN projects \ resp.result : TRUE

\* C7: no step changes a stored project's projectType, and updateProject
\* changes nothing but name, defaultAssigneeId and projectLeadId of the
\* project it addresses.
C7_TypeImmutableUpdateFrame ==
    [][/\ \A id \in DOMAIN projects \cap DOMAIN projects' :
             projects'[id].projectType = projects[id].projectType
       /\ resp'.op = "updateProject" =>
             /\ DOMAIN projects' = DOMAIN projects
             /\ \A id \in DOMAIN projects :
                   IF id = resp'.input.id
                   THEN /\ projects'[id].projectType = projects[id].projectType
                        /\ projects'[id].workspaceId = projects[id].workspaceId
                        /\ projects'[id].members = projects[id].members
                        /\ projects'[id].workflows = projects[id].workflows
                        /\ projects'[id].name = resp'.input.name
                        /\ projects'[id].defaultAssigneeId = resp'.input.defaultAssigneeId
                        /\ projects'[id].projectLeadId = resp'.input.projectLeadId
                   ELSE projects'[id] = projects[id]
             /\ UNCHANGED <<labels, nextProjectId>>]_vars

\* updateProject has renamed a SCRUM project and handed it to another lead,
\* beside a second project.
C7_Witness ==
    /\ resp.op = "updateProject"
    /\ resp.kind = "OK"
    /\ Cardinality(DOMAIN projects) >= 2
    /\ projects[resp.result].projectType = "SCRUM"
    /\ projects[resp.result].name = "Roadmap"
    /\ projects[resp.result].projectLeadId # Admin
    /\ projects[resp.result].defaultAssigneeId = Admin
    /\ Cardinality(projects[resp.result].members) = 2

\* C8: createProject never fails on its workspaceShortName: the project is
\* created with the caller as lead and member and with its type's workflows;
\* its workspaceId is the id of the workspace with that shortName, and unset
\* when there is none.
C8_CreateWithOrWithoutWorkspace ==
    resp.op = "createProject" =>
        /\ resp.kind = "OK"
        /\ resp.result \in DOMAIN projects
        /\ LET p == projects[resp.result]
               shortName == resp.input.workspaceShortName
           IN  /\ p.projectLeadId = resp.user
               /\ resp.user \in p.members
               /\ p.workflows = IF resp.input.projectType = "KANBAN"
                                THEN KanbanTemplate ELSE ScrumTemplate
               /\ \A w \in workspaces : w.shortName = shortName => p.workspaceId = w.id
               /\ (\A w \in workspaces : w.shortName # shortName) => p.workspaceId = NULL

\* createProject was called with a shortName no workspace has and created the
\* project, after one created with a workspace's shortName.
C8_Witness ==
    /\ resp.op = "createProject"
    /\ resp.kind = "OK"
    /\ resp.input.workspaceShortName = "ghost"
    /\ projects[resp.result].workspaceId = NULL
    /\ \E id \in DOMAIN projects : projects[id].workspaceId # NULL

\* C9: a deleteProject call that fails is answered Unauthorized or BadRequest,
\* never with the store's own error.
C9_DeleteFailuresAreWrapped ==
    (resp.op = "deleteProject" /\ resp.kind # "OK") =>
        resp.kind \in {"UNAUTHORIZED", "BAD_REQUEST"}

\* C10: a project leaves the store only in the delete step of a call whose
\* caller is the project's lead at that moment.
C10_RemovedOnlyByCurrentLead ==
    [][\A id \in DOMAIN projects \ DOMAIN projects' :
          \E c \in Calls :
              /\ Answers(c)
              /\ calls[c].id = id
              /\ calls[c].user = projects[id].projectLeadId]_vars

====
